---- MODULE Spec2Model ----
(***************************************************************************)
(* Broker core of pneuma: the confidence scorer, the BrokerState state     *)
(* machine, the escalation handoff and the single-consumer service loop    *)
(* (crates/pneuma-broker/src/service.rs, confidence/scorer.rs, handle.rs). *)
(*                                                                         *)
(* Scores are exact rationals scaled by 10000 (1.0 = 10000); the overall   *)
(* score is scaled by 1000000.  Time is in seconds.                        *)
(***************************************************************************)
EXTENDS Integers, Sequences, FiniteSets, TLC

\* ------------------------------------------------------------------ bounds
MaxQueue == 2          \* requests waiting in the channel at once
MaxEngines == 2        \* engine 1 is the primary; the factory makes 2..MaxEngines
MaxTime == 40          \* the clock stops advancing here
MaxFailures == 3       \* engine operations stop failing at this counter value
MaxPageId == 2         \* u32::MAX of the page-id counter, scaled down
MaxEntries == 1        \* cookies (and local-storage entries) in an envelope
U32_MAX == 100000      \* u32::MAX scaled down to fit TLC integers
U64_MAX == 200000      \* u64::MAX and usize::MAX, scaled down likewise
MaxCalls == 6          \* calls made on a BrokerState exercised on its own
MaxCallers == 4        \* BrokerHandle calls made when the callers are followed
MaxImported == 3       \* cookies (and local-storage entries) given to import_state

\* ------------------------------------------------------- program constants
ESCALATION_TIMEOUT == 10
ACTIVE_FAILURE_BUDGET == 3
ESCALATION_BACKOFF_AFTER_ROLLBACK == 30

None == -1             \* Option::None of an unsigned value or of an engine

\* ------------------------------------------------------------ JSON values
\* serde_json::Value, restricted to what the broker reads.
JBool(b) == [t |-> "bool", b |-> b, n |-> 0, s |-> <<>>]
JUInt(n) == [t |-> "uint", b |-> FALSE, n |-> n, s |-> <<>>]
JStr(s) == [t |-> "str", b |-> FALSE, n |-> 0, s |-> s]
JOther == [t |-> "other", b |-> FALSE, n |-> 0, s |-> <<>>]

\* A metadata string: text that is not JSON ("garbage"), JSON that is not an
\* object ("scalar"), or an object.  compact tells whether the text is already
\* in serde_json's output form (sorted keys, no whitespace).
GarbageText == [form |-> "garbage", compact |-> FALSE, obj |-> <<>>]
ScalarText == [form |-> "scalar", compact |-> TRUE, obj |-> <<>>]
ObjectText(o, c) == [form |-> "object", compact |-> c, obj |-> o]

Min(a, b) == IF a < b THEN a ELSE b
Max(a, b) == IF a > b THEN a ELSE b

\* str::trim on a sequence of one-character strings.
RECURSIVE TrimStart(_)
TrimStart(s) == IF s # <<>> /\ Head(s) = " " THEN TrimStart(Tail(s)) ELSE s
RECURSIVE TrimEnd(_)
TrimEnd(s) ==
    IF s # <<>> /\ s[Len(s)] = " " THEN TrimEnd(SubSeq(s, 1, Len(s) - 1)) ELSE s
Trim(s) == TrimEnd(TrimStart(s))

\* ---------------------------------------------------------------- signals
DefaultSignals ==
    [first_paint_ms |-> None, paint_element_count |-> 0, dom_element_count |-> 0,
     dom_depth_max |-> 0, body_text_length |-> 0, js_errors |-> 0,
     unhandled_promise_rejections |-> 0, console_error_count |-> 0,
     js_execution_time_ms |-> 0, failed_resource_count |-> 0,
     cors_violations |-> 0, pending_requests_at_sample |-> 0,
     css_parse_failures |-> 0, sampled_at_ms |-> 0]

parse_u64(object, key) ==
    IF key \in DOMAIN object /\ object[key].t = "uint" THEN object[key].n ELSE None

\* Faulty variant: the u64 value is cast to u32 without the min, so it wraps.
parse_u32_wrapping(object, key) ==
    IF key \in DOMAIN object /\ object[key].t = "uint"
    THEN object[key].n % (U32_MAX + 1) ELSE None

parse_u32(object, key) ==
    IF key \in DOMAIN object /\ object[key].t = "uint"
    THEN Min(object[key].n, U32_MAX) ELSE None

parse_usize(object, key) == parse_u64(object, key)

\* Overrides field f of signals s with the parsed value v when it is present.
Override(s, f, v) == IF v # None THEN [s EXCEPT ![f] = v] ELSE s

TitleOf(object) ==
    IF "title" \in DOMAIN object /\ object["title"].t = "str"
    THEN Trim(object["title"].s) ELSE <<>>

\* Faulty variant: a result stamped as migrated does not count as ok.
OkOf_unless_migrated(object) ==
    /\ "ok" \in DOMAIN object /\ object["ok"].t = "bool" /\ object["ok"].b
    /\ ~("migrated" \in DOMAIN object /\ object["migrated"].b)

OkOf(object) ==
    "ok" \in DOMAIN object /\ object["ok"].t = "bool" /\ object["ok"].b

Baseline(object, sampled) ==
    LET s0 == [DefaultSignals EXCEPT !.sampled_at_ms = sampled]
        s1 == IF OkOf(object) THEN [s0 EXCEPT !.first_paint_ms = 600] ELSE s0
        title == TitleOf(object)
    IN  IF title # <<>>
        THEN [s1 EXCEPT !.paint_element_count = 24, !.dom_element_count = 32,
                        !.dom_depth_max = 6,
                        !.body_text_length = Max(Len(title) * 12, 64),
                        !.js_execution_time_ms = 250]
        ELSE s1

\* Faulty variant: the keys are read from any text that holds them, without
\* the top level being required to parse as an object.
signals_from_navigate_meta_any_json(meta_json, sampled) ==
    IF meta_json.form = "garbage" /\ meta_json.obj = <<>>
    THEN [DefaultSignals EXCEPT !.sampled_at_ms = sampled]
    ELSE LET o == meta_json.obj
             a == Baseline(o, sampled)
             b == Override(a, "first_paint_ms", parse_u64(o, "first_paint_ms"))
             c == Override(b, "paint_element_count", parse_usize(o, "paint_element_count"))
             d == Override(c, "dom_element_count", parse_usize(o, "dom_element_count"))
             e == Override(d, "dom_depth_max", parse_usize(o, "dom_depth_max"))
             f == Override(e, "body_text_length", parse_usize(o, "body_text_length"))
             g == Override(f, "js_errors", parse_u32(o, "js_errors"))
             h == Override(g, "unhandled_promise_rejections",
                           parse_u32(o, "unhandled_promise_rejections"))
             i == Override(h, "console_error_count", parse_u32(o, "console_error_count"))
             j == Override(i, "js_execution_time_ms", parse_u64(o, "js_execution_time_ms"))
             k == Override(j, "failed_resource_count", parse_u32(o, "failed_resource_count"))
             l == Override(k, "cors_violations", parse_u32(o, "cors_violations"))
             m == Override(l, "pending_requests_at_sample",
                           parse_u32(o, "pending_requests_at_sample"))
         IN  Override(m, "css_parse_failures", parse_u32(o, "css_parse_failures"))

signals_from_navigate_meta(meta_json, sampled) ==
    IF meta_json.form # "object"
    THEN [DefaultSignals EXCEPT !.sampled_at_ms = sampled]
    ELSE LET o == meta_json.obj
             a == Baseline(o, sampled)
             b == Override(a, "first_paint_ms", parse_u64(o, "first_paint_ms"))
             c == Override(b, "paint_element_count", parse_usize(o, "paint_element_count"))
             d == Override(c, "dom_element_count", parse_usize(o, "dom_element_count"))
             e == Override(d, "dom_depth_max", parse_usize(o, "dom_depth_max"))
             f == Override(e, "body_text_length", parse_usize(o, "body_text_length"))
             g == Override(f, "js_errors", parse_u32(o, "js_errors"))
             h == Override(g, "unhandled_promise_rejections",
                           parse_u32(o, "unhandled_promise_rejections"))
             i == Override(h, "console_error_count", parse_u32(o, "console_error_count"))
             j == Override(i, "js_execution_time_ms", parse_u64(o, "js_execution_time_ms"))
             k == Override(j, "failed_resource_count", parse_u32(o, "failed_resource_count"))
             l == Override(k, "cors_violations", parse_u32(o, "cors_violations"))
             m == Override(l, "pending_requests_at_sample",
                           parse_u32(o, "pending_requests_at_sample"))
         IN  Override(m, "css_parse_failures", parse_u32(o, "css_parse_failures"))

\* Faulty variant: a migrated key that the object already holds is kept.
stamp_migrated_keeps_existing(meta_json, migrated) ==
    IF meta_json.form # "object" THEN meta_json
    ELSE ObjectText([k \in DOMAIN meta_json.obj \cup {"migrated"} |->
                        IF k \in DOMAIN meta_json.obj THEN meta_json.obj[k]
                        ELSE JBool(migrated)],
                    TRUE)

\* serde_json re-serialises the object in its own output form.
stamp_migrated(meta_json, migrated) ==
    IF meta_json.form # "object" THEN meta_json
    ELSE ObjectText([k \in DOMAIN meta_json.obj \cup {"migrated"} |->
                        IF k = "migrated" THEN JBool(migrated) ELSE meta_json.obj[k]],
                    TRUE)

\* ----------------------------------------------------------------- scorer
DEFAULT_THRESHOLD == 600000    \* 0.60, in the scale of the overall score

\* Faulty variant: a page that never painted gets the no-elements score.
score_paint_never_zero(s) ==
    IF s.first_paint_ms = None \/ s.paint_element_count = 0 THEN 1000
    ELSE IF s.first_paint_ms > 8000 THEN 3000
    ELSE IF s.first_paint_ms > 3000 THEN 6000
    ELSE 40 * Min(s.paint_element_count, 100) + 6000

score_paint(s) ==
    IF s.first_paint_ms = None THEN 0
    ELSE IF s.paint_element_count = 0 THEN 1000
    ELSE IF s.first_paint_ms > 8000 THEN 3000
    ELSE IF s.first_paint_ms > 3000 THEN 6000
    ELSE 40 * Min(s.paint_element_count, 100) + 6000

score_dom(s) ==
    IF s.dom_element_count < 5 /\ s.body_text_length < 50 THEN 2000
    ELSE IF s.dom_element_count < 20 THEN 5000
    ELSE Min(50 * s.dom_element_count + 5000, 10000)

\* Faulty variant: the penalties are not floored at 0.
score_js_unfloored(s) ==
    10000 - 1500 * s.unhandled_promise_rejections
          - 500 * s.console_error_count - 1000 * s.js_errors

score_js(s) ==
    Max(10000 - 1500 * s.unhandled_promise_rejections
              - 500 * s.console_error_count - 1000 * s.js_errors, 0)

score_network(s) ==
    LET pending == Min(500 * s.pending_requests_at_sample, 3000)
        cors == Min(1000 * s.cors_violations, 4000)
        failed == Min(300 * s.failed_resource_count, 2000)
    IN  Max(10000 - pending - cors - failed, 0)

NoReason == [tag |-> "None", arg |-> 0]
Reason(tag, arg) == [tag |-> tag, arg |-> arg]

\* Faulty variant: JavaScript errors are looked at before the DOM score.
classify_failure_js_first(s, paint, dom) ==
    IF paint = 0 THEN Reason("ZeroPaint", 0)
    ELSE IF s.js_errors > 3 \/ s.unhandled_promise_rejections > 2
         THEN Reason("JsCrashLoop", s.js_errors)
    ELSE IF dom <= 2000 THEN Reason("SpaPrehyrationStall", 0)
    ELSE IF s.failed_resource_count > 5 \/ s.cors_violations > 2
         THEN Reason("NetworkStarvation", s.failed_resource_count)
    ELSE IF s.css_parse_failures > 3 THEN Reason("CssLayoutCollapse", 0)
    ELSE IF s.js_execution_time_ms > 5000
         THEN Reason("SlowExecution", s.js_execution_time_ms)
    ELSE NoReason

classify_failure(s, paint, dom) ==
    IF paint = 0 THEN Reason("ZeroPaint", 0)
    ELSE IF dom <= 2000 THEN Reason("SpaPrehyrationStall", 0)
    ELSE IF s.js_errors > 3 \/ s.unhandled_promise_rejections > 2
         THEN Reason("JsCrashLoop", s.js_errors)
    ELSE IF s.failed_resource_count > 5 \/ s.cors_violations > 2
         THEN Reason("NetworkStarvation", s.failed_resource_count)
    ELSE IF s.css_parse_failures > 3 THEN Reason("CssLayoutCollapse", 0)
    ELSE IF s.js_execution_time_ms > 5000
         THEN Reason("SlowExecution", s.js_execution_time_ms)
    ELSE NoReason

\* Faulty variant: a score equal to the threshold escalates.
decide_strict(overall, reason, threshold) ==
    IF reason # NoReason THEN [tag |-> "EscalateToLadybird", reason |-> reason]
    ELSE IF overall > threshold THEN [tag |-> "StayOnServo", reason |-> NoReason]
    ELSE [tag |-> "EscalateToLadybird", reason |-> Reason("ZeroPaint", 0)]

decide(overall, reason, threshold) ==
    IF reason # NoReason THEN [tag |-> "EscalateToLadybird", reason |-> reason]
    ELSE IF overall >= threshold THEN [tag |-> "StayOnServo", reason |-> NoReason]
    ELSE [tag |-> "EscalateToLadybird", reason |-> Reason("ZeroPaint", 0)]

score(s, threshold) ==
    LET paint == score_paint(s)
        dom == score_dom(s)
        js == score_js(s)
        network == score_network(s)
        overall == 35 * paint + 30 * dom + 25 * js + 10 * network
        failure_reason == classify_failure(s, paint, dom)
    IN  [paint_score |-> paint, dom_score |-> dom, js_score |-> js,
         network_score |-> network, overall |-> overall,
         failure_reason |-> failure_reason,
         decision |-> decide(overall, failure_reason, threshold)]

\* ------------------------------------------------------------ BrokerState
Primary == "primary"
SecondaryProxy == "secondary_proxy"

NewBrokerState(engine) ==
    [active_engine |-> engine, active_role |-> Primary, standby_primary |-> None,
     consecutive_failures |-> 0, escalation_backoff_until |-> None]

\* Faulty variant: the addition wraps around.
wrapping_add_to(x, y, max) == (x + y) % (max + 1)

\* u32::saturating_add, for a counter whose u32::MAX is scaled to `max`.
saturating_add_to(x, y, max) == IF x + y > max THEN max ELSE x + y
saturating_add(x, y) == saturating_add_to(x, y, U32_MAX)

\* Faulty variant: a success leaves the failure count as it is.
record_success_keeps_count(st) == st

record_success(st) == [st EXCEPT !.consecutive_failures = 0]

\* Faulty variant: the budget is exhausted one failure late.
record_failure_late(st) ==
    LET n == saturating_add(st.consecutive_failures, 1)
    IN  [state |-> [st EXCEPT !.consecutive_failures = n],
         exhausted |-> n > ACTIVE_FAILURE_BUDGET]

\* The state after the call, and the returned flag.
record_failure(st) ==
    LET n == saturating_add(st.consecutive_failures, 1)
    IN  [state |-> [st EXCEPT !.consecutive_failures = n],
         exhausted |-> n >= ACTIVE_FAILURE_BUDGET]

\* Faulty variant: the backoff window is not consulted.
escalation_skip_reason_no_backoff(st, t) ==
    IF st.active_role = SecondaryProxy THEN "already_on_secondary"
    ELSE IF st.standby_primary # None THEN "standby_primary_present"
    ELSE "eligible"

\* Faulty variant: only the backoff window is consulted.
escalation_skip_reason_backoff_only(st, t) ==
    IF st.escalation_backoff_until # None /\ t < st.escalation_backoff_until
    THEN "in_backoff_window"
    ELSE "eligible"

escalation_skip_reason(st, t) ==
    IF st.active_role = SecondaryProxy THEN "already_on_secondary"
    ELSE IF st.standby_primary # None THEN "standby_primary_present"
    ELSE IF st.escalation_backoff_until # None /\ t < st.escalation_backoff_until
         THEN "in_backoff_window"
    ELSE "eligible"

\* Faulty variant: the role is not changed by the adoption.
apply_escalation_keeps_role(st, secondary) ==
    [st EXCEPT !.active_engine = secondary,
               !.standby_primary = st.active_engine,
               !.consecutive_failures = 0]

\* Faulty variant: the former primary is not kept as standby.
apply_escalation_no_standby(st, secondary) ==
    [st EXCEPT !.active_engine = secondary,
               !.active_role = SecondaryProxy,
               !.consecutive_failures = 0]

apply_escalation(st, secondary) ==
    [st EXCEPT !.active_engine = secondary,
               !.standby_primary = st.active_engine,
               !.active_role = SecondaryProxy,
               !.consecutive_failures = 0]

\* Faulty variant: the rollback does not start the escalation backoff.
apply_rollback_no_backoff(st, t) ==
    IF st.standby_primary = None THEN [state |-> st, failed |-> None]
    ELSE [state |-> [st EXCEPT !.active_engine = st.standby_primary,
                               !.standby_primary = None,
                               !.active_role = Primary,
                               !.consecutive_failures = 0],
          failed |-> st.active_engine]

\* The state after the call, and the failed secondary handed back (None when
\* there is no standby to roll back to).
apply_rollback(st, t) ==
    IF st.standby_primary = None THEN [state |-> st, failed |-> None]
    ELSE [state |-> [st EXCEPT !.active_engine = st.standby_primary,
                               !.standby_primary = None,
                               !.active_role = Primary,
                               !.consecutive_failures = 0,
                               !.escalation_backoff_until =
                                   t + ESCALATION_BACKOFF_AFTER_ROLLBACK],
          failed |-> st.active_engine]

\* Faulty variant: an exhausted budget starts the backoff in role Primary too.
handle_operation_health_backoff_on_primary(st, ok, t) ==
    IF ok THEN [state |-> record_success(st), failed |-> None]
    ELSE LET rf == record_failure(st)
         IN  IF rf.exhausted /\ rf.state.active_role = SecondaryProxy
             THEN apply_rollback(rf.state, t)
             ELSE IF rf.exhausted
             THEN [state |-> [rf.state EXCEPT !.escalation_backoff_until =
                                  t + ESCALATION_BACKOFF_AFTER_ROLLBACK],
                   failed |-> None]
             ELSE [state |-> rf.state, failed |-> None]

\* The state after the call, and the engine close was invoked on (None: none).
handle_operation_health(st, ok, t) ==
    IF ok THEN [state |-> record_success(st), failed |-> None]
    ELSE LET rf == record_failure(st)
         IN  IF rf.exhausted /\ rf.state.active_role = SecondaryProxy
             THEN apply_rollback(rf.state, t)
             ELSE [state |-> rf.state, failed |-> None]

\* ------------------------------------------------------------------ state
VARIABLES
    queue,          \* the request channel: kinds of the requests waiting
    pc,             \* position of the service loop
    state,          \* BrokerState
    next_page_id,
    engine_closed,
    engines,        \* engine id -> what happened to that engine
    now,            \* monotonic clock, seconds
    ho,             \* locals of the handoff in progress
    owed,           \* requests taken off the queue minus replies sent
    last,           \* record of the request answered most recently (NoLast
                    \* while a handoff is in progress)
    probe           \* inputs and results of the functions exercised on their
                    \* own (NoProbe in the service loop)

vars == <<queue, pc, state, next_page_id, engine_closed, engines, now,
          ho, owed, last, probe>>

Kinds == {"CreatePage", "Navigate", "Evaluate", "Screenshot", "CloseBrowser", "Shutdown"}
HandoffPcs == {"extract", "create", "bootstrap", "import", "final"}
EngineIds == 1 .. MaxEngines

NoText == [form |-> "none", compact |-> FALSE, obj |-> <<>>]
Ok(meta) == [ok |-> TRUE, meta |-> meta, num |-> 0]
OkNum(n) == [ok |-> TRUE, meta |-> NoText, num |-> n]
Err == [ok |-> FALSE, meta |-> NoText, num |-> 0]

\* Metadata strings an engine's navigate returns.
HealthyMeta ==
    ObjectText([k \in {"ok", "engine", "migrated", "title"} |->
                   CASE k = "ok" -> JBool(TRUE)
                     [] k = "engine" -> JStr(<<"s">>)
                     [] k = "migrated" -> JBool(FALSE)
                     [] OTHER -> JStr(<<"E", "x">>)], TRUE)
BlankMeta ==
    ObjectText([k \in {"ok", "engine", "title"} |->
                   CASE k = "ok" -> JBool(TRUE)
                     [] k = "engine" -> JStr(<<"s">>)
                     [] OTHER -> JStr(<<" ">>)], FALSE)
NavMetas == {HealthyMeta, BlankMeta, GarbageText}
NavResults == {Err} \cup {Ok(m) : m \in NavMetas}
\* How long a handoff step can take: no time, a slow step (one of them
\* reaches the budget, two exceed it), a step that outlasts the whole budget.
Durations == {0, 10, 20}
\* Idle time between two requests.
TickStep == ESCALATION_BACKOFF_AFTER_ROLLBACK

NoHandoff ==
    [result |-> Err, cookies |-> 0, local_storage |-> 0, secondary |-> None,
     start |-> 0, elapsed |-> 0, before |-> NewBrokerState(1)]

\* kind: the request; op_ok: the active engine's operation returned Ok;
\* outcome: the way the request went; served: the metadata string the engine
\* behind the reply returned from navigate; replies: what was sent on the
\* request's reply channel, in order.
NoLast ==
    [kind |-> "none", op_ok |-> TRUE, outcome |-> "none", served |-> NoText,
     replies |-> <<>>]

\* An engine is "absent" (not made yet), "live" (owned, close never invoked),
\* "closed" (owned, close invoked), "released" (dropped after close was
\* invoked) or "leaked" (dropped although close was never invoked).
Launch(g, e) == [g EXCEPT ![e] = "live"]
\* close() is invoked on engine e.
CloseOn(g, e) == [g EXCEPT ![e] = "closed"]
\* The Box holding engine e is dropped.
DropEngine(g, e) ==
    IF e = None THEN g
    ELSE [g EXCEPT ![e] = IF @ = "closed" THEN "released" ELSE "leaked"]

NoProbe == [kind |-> "none"]

\* The (url, opts_json) pairs a Navigate request can carry.
Urls == {1, 2}
\* The EscalationEngineFactory, as the target of a call.
Factory == 0

\* One call perform_handoff makes: the method, the engine (or the factory) it
\* is invoked on, the url passed, how it returned ("ok", "err", or "pending"
\* when the handoff was dropped while awaiting it), the metadata a navigate
\* returned and the envelope extract_state returned or import_state was given.
Call(op, on, url, ok, meta, cookies, local_storage) ==
    [op |-> op, on |-> on, url |-> url, result |-> IF ok THEN "ok" ELSE "err",
     meta |-> meta, cookies |-> cookies, local_storage |-> local_storage]
Pending(op, on, url, cookies, local_storage) ==
    [Call(op, on, url, TRUE, NoText, cookies, local_storage)
        EXCEPT !.result = "pending"]

\* What perform_handoff returned: Ok(HandoffResult), or an error.
HandoffResult(secondary, result_json, performed_final_navigate, imported_entry_count) ==
    [ok |-> TRUE, secondary |-> secondary, result_json |-> result_json,
     performed_final_navigate |-> performed_final_navigate,
     imported_entry_count |-> imported_entry_count]
HandoffError ==
    [ok |-> FALSE, secondary |-> None, result_json |-> NoText,
     performed_final_navigate |-> FALSE, imported_entry_count |-> 0]

\* The calls of the most recent perform_handoff and what it returned, kept
\* when the handoff is exercised on its own.
HandoffProbe(url, primary) ==
    [kind |-> "handoff", url |-> url, primary |-> primary, calls |-> <<>>,
     returned |-> HandoffError]
ObserveStart(p, url, primary) ==
    IF p.kind = "handoff" THEN HandoffProbe(url, primary) ELSE p
ObserveCall(p, call) ==
    IF p.kind = "handoff" THEN [p EXCEPT !.calls = Append(@, call)] ELSE p

\* What has happened to the active engine, kept when the loop's history is
\* followed: how many operations in a row have failed on the secondary since
\* it was adopted, and whether the last switch of engines was an adoption
\* (apply_escalation) or a rollback (apply_rollback handed back the secondary).
HistoryProbe == [kind |-> "history", failed_in_a_row |-> 0, last_switch |-> "none"]
ObserveOperation(p, role, ok, rolled_back) ==
    IF p.kind # "history" THEN p
    ELSE [p EXCEPT
            !.failed_in_a_row =
                IF role = SecondaryProxy /\ ~ok /\ ~rolled_back THEN @ + 1 ELSE 0,
            !.last_switch = IF rolled_back THEN "rollback" ELSE @]

ObserveEnd(p, call, returned) ==
    IF p.kind = "handoff"
    THEN [p EXCEPT !.calls = Append(@, call), !.returned = returned]
    ELSE IF p.kind = "history" /\ returned.ok
    THEN [p EXCEPT !.failed_in_a_row = 0, !.last_switch = "adoption"]
    ELSE p

\* The service loop as run_with_factory starts it.
LoopStart ==
    /\ queue = <<>>
    /\ pc = "recv"
    /\ state = NewBrokerState(1)
    /\ next_page_id = 1
    /\ engine_closed = FALSE
    /\ engines = Launch([e \in EngineIds |-> "absent"], 1)
    /\ now = 0
    /\ ho = NoHandoff
    /\ owed = 0
    /\ last = NoLast

Init == LoopStart /\ probe = NoProbe

\* ---------------------------------------------------------------- clients
\* BrokerHandle::round_trip, the sending half: the request enters the channel.
Send(kind) ==
    /\ pc # "exited"
    /\ Len(queue) < MaxQueue
    /\ queue' = Append(queue, kind)
    /\ UNCHANGED <<probe, pc, state, next_page_id, engine_closed, engines, now,
                   ho, owed, last>>

\* Time passes while the loop waits in rx.recv().  The clock is read only
\* against the backoff deadline, so idle time is modelled while one is pending.
Tick ==
    /\ pc = "recv"
    /\ state.escalation_backoff_until # None
    /\ now < state.escalation_backoff_until
    /\ now + TickStep <= MaxTime
    /\ now' = now + TickStep
    /\ UNCHANGED <<probe, queue, pc, state, next_page_id, engine_closed, engines,
                   ho, owed, last>>

\* ----------------------------------------------------------- service loop
\* Faulty variant: a request is taken although the previous one is not finished.
Takes_any_time(kind) == queue # <<>> /\ Head(queue) = kind

Takes(kind) == pc = "recv" /\ queue # <<>> /\ Head(queue) = kind

\* The record of a request answered with `replies`.
Done(kind, op_ok, outcome, served, replies) ==
    [kind |-> kind, op_ok |-> op_ok, outcome |-> outcome, served |-> served,
     replies |-> replies]

\* The engines after handle_operation_health closed (and dropped) `failed`.
AfterHealth(g, failed) ==
    IF failed = None THEN g ELSE DropEngine(CloseOn(g, failed), failed)

CreatePageReplies(page_id) == <<OkNum(page_id)>>

CreatePage ==
    /\ Takes("CreatePage")
    /\ queue' = Tail(queue)
    /\ next_page_id' = saturating_add_to(next_page_id, 1, MaxPageId)
    /\ last' = Done("CreatePage", TRUE, "plain", NoText,
                    CreatePageReplies(next_page_id))
    /\ owed' = owed + 1 - Len(last'.replies)
    /\ UNCHANGED <<probe, pc, state, engine_closed, engines, now, ho>>

\* Faulty variant: a secondary-served response is not stamped.
StampIfSecondary_never(st, result) == result
\* Faulty variant: every Ok response is stamped, whatever the role.
StampIfSecondary_always(st, result) ==
    IF result.ok THEN [result EXCEPT !.meta = stamp_migrated(result.meta, TRUE)]
    ELSE result

\* Stamp secondary-served responses before scoring or reply.
StampIfSecondary(st, result) ==
    IF result.ok /\ st.active_role = SecondaryProxy
    THEN Ok(stamp_migrated(result.meta, TRUE)) ELSE result

\* Which way a Navigate goes once the active engine has answered and the
\* health of the operation has been recorded in st.
NavigateRoute(st, result, t) ==
    IF ~result.ok THEN "error"
    ELSE LET report == score(signals_from_navigate_meta(result.meta, t),
                             DEFAULT_THRESHOLD)
         IN  IF report.decision.tag # "EscalateToLadybird" THEN "no_escalation"
             ELSE IF escalation_skip_reason(st, t) # "eligible" THEN "skipped"
             ELSE "handoff"

\* The replies a Navigate sends when it does not run a handoff.
NavigateReplies(result) == <<result>>

Navigate ==
    /\ Takes("Navigate")
    /\ \E raw \in NavResults :
         /\ ~raw.ok => state.consecutive_failures < MaxFailures
         /\ LET h == handle_operation_health(state, raw.ok, now)
                result == StampIfSecondary(h.state, raw)
                route == NavigateRoute(h.state, result, now)
            IN  /\ queue' = Tail(queue)
                /\ state' = h.state
                /\ engines' = AfterHealth(engines, h.failed)
                /\ IF route = "handoff"
                   THEN /\ now + ESCALATION_TIMEOUT <= MaxTime
                        /\ pc' = "extract"
                        /\ ho' = [NoHandoff EXCEPT !.result = result, !.start = now,
                                                   !.before = h.state]
                        /\ owed' = owed + 1
                        /\ last' = NoLast
                        /\ \E url \in Urls :
                             probe' = ObserveStart(
                                 ObserveOperation(probe, state.active_role, raw.ok,
                                                  h.failed # None),
                                 url, h.state.active_engine)
                   ELSE /\ last' = Done("Navigate", raw.ok, route, raw.meta,
                                        NavigateReplies(result))
                        /\ owed' = owed + 1 - Len(last'.replies)
                        /\ probe' = ObserveOperation(probe, state.active_role,
                                                     raw.ok, h.failed # None)
                        /\ UNCHANGED <<pc, ho>>
    /\ UNCHANGED <<next_page_id, engine_closed, now>>

\* ---------------------------------------------------------------- handoff
\* Faulty variant: every step has a budget of its own.
InTime_per_step(d) == d <= ESCALATION_TIMEOUT

\* A step of perform_handoff that takes d seconds returns before the
\* tokio::time::timeout around the handoff fires.
InTime(d) == ho.elapsed + d <= ESCALATION_TIMEOUT
\* The timeout fires while a step that takes d seconds is still pending
\* (Timeout polls the handoff first: a step done at the deadline is in time).
Expires(d) == ho.elapsed + d > ESCALATION_TIMEOUT

\* Faulty variant: the secondary's metadata is sent as the engine returned it.
HandoffSuccessReplies_unstamped(result_json) == <<Ok(result_json)>>

\* The Ok(Ok(handoff)) arm: what is sent, and the BrokerState it leaves.
HandoffSuccessReplies(result_json) == <<Ok(stamp_migrated(result_json, TRUE))>>
HandoffSuccessState(st, secondary) == apply_escalation(st, secondary)

\* Faulty variant: a failed handoff sends nothing.
HandoffFailureReplies_none(result) == <<>>
\* Faulty variant: a failed handoff answers with its own error.
HandoffFailureReplies_error(result) == <<Err>>
\* Faulty variant: a handoff that failed after the factory returned adopts the secondary.
HandoffFailureState_adopt(st, secondary) ==
    IF secondary = None THEN st ELSE apply_escalation(st, secondary)

\* The Ok(Err(error)) and Err(_timeout) arms.
HandoffFailureReplies(result) == <<result>>
HandoffFailureState(st, secondary) == st
\* What becomes of the secondary a failed perform_handoff held: its Box goes
\* out of scope (close is not invoked).
HandoffAbandon(g, secondary) == DropEngine(g, secondary)

\* Faulty variant: a handoff that does not succeed stops the loop.
EndHandoff_stops(outcome, served, new_state, replies, g, t, call, returned) ==
    /\ pc' = IF outcome = "handoff_ok" THEN "recv" ELSE "exited"
    /\ ho' = NoHandoff
    /\ state' = new_state
    /\ engines' = g
    /\ now' = t
    /\ last' = Done("Navigate", TRUE, outcome, served, replies)
    /\ owed' = owed - Len(replies)
    /\ probe' = ObserveEnd(probe, call, returned)
    /\ UNCHANGED <<queue, next_page_id, engine_closed>>

\* Faulty variant: the secondary's result goes through the escalation path
\* again instead of being sent.
EndHandoff_escalates_again(outcome, served, new_state, replies, g, t, call, returned) ==
    /\ state' = new_state
    /\ engines' = g
    /\ now' = t
    /\ IF outcome = "handoff_ok"
       THEN /\ pc' = "extract"
            /\ ho' = [NoHandoff EXCEPT !.result = replies[1], !.start = t,
                                       !.before = new_state]
            /\ probe' = ObserveCall(probe, call)
            /\ UNCHANGED <<owed, last>>
       ELSE /\ pc' = "recv"
            /\ ho' = NoHandoff
            /\ last' = Done("Navigate", TRUE, outcome, served, replies)
            /\ owed' = owed - Len(replies)
            /\ probe' = ObserveEnd(probe, call, returned)
    /\ UNCHANGED <<queue, next_page_id, engine_closed>>

EndHandoff(outcome, served, new_state, replies, g, t, call, returned) ==
    /\ pc' = "recv"
    /\ ho' = NoHandoff
    /\ state' = new_state
    /\ engines' = g
    /\ now' = t
    /\ last' = Done("Navigate", TRUE, outcome, served, replies)
    /\ owed' = owed - Len(replies)
    /\ probe' = ObserveEnd(probe, call, returned)
    /\ UNCHANGED <<queue, next_page_id, engine_closed>>

HandoffFails(outcome, t, call) ==
    EndHandoff(outcome, NoText, HandoffFailureState(state, ho.secondary),
               HandoffFailureReplies(ho.result),
               HandoffAbandon(engines, ho.secondary), t, call, HandoffError)

HandoffSucceeds(result_json, t, call, performed_final_navigate, imported_entry_count) ==
    EndHandoff("handoff_ok", result_json, HandoffSuccessState(state, ho.secondary),
               HandoffSuccessReplies(result_json), engines, t, call,
               HandoffResult(ho.secondary, result_json, performed_final_navigate,
                             imported_entry_count))

NextStep(step, new_ho, g, d, call) ==
    /\ pc' = step
    /\ ho' = [new_ho EXCEPT !.elapsed = ho.elapsed + d]
    /\ engines' = g
    /\ now' = now + d
    /\ probe' = ObserveCall(probe, call)
    /\ UNCHANGED <<queue, state, next_page_id, engine_closed, owed, last>>

\* The url and opts_json perform_handoff passes to the secondary's navigate:
\* its own arguments, which the Navigate arm takes from the request.
HandoffUrl == IF probe.kind = "handoff" THEN probe.url ELSE 0

\* Step 1: primary.extract_state().
HandoffExtract ==
    /\ pc = "extract"
    /\ \E d \in Durations, ok \in BOOLEAN, c \in {0, MaxEntries}, l \in {0, MaxEntries} :
         LET call == Call("extract_state", state.active_engine, 0, ok, NoText,
                          IF ok THEN c ELSE 0, IF ok THEN l ELSE 0)
         IN  /\ InTime(d)
             /\ IF ok
                THEN NextStep("create", [ho EXCEPT !.cookies = c, !.local_storage = l],
                              engines, d, call)
                ELSE HandoffFails("handoff_err", now + d, call)

\* Step 2: factory.create_for_escalation().  The new engine takes the lowest
\* id that is free: never used, or of an engine closed and dropped since.
HandoffCreate ==
    /\ pc = "create"
    /\ \E d \in Durations, ok \in BOOLEAN :
         LET call == Call("create_for_escalation", Factory, 0, ok, NoText, 0, 0)
         IN  /\ InTime(d)
             /\ IF ok
                THEN \E e \in EngineIds :
                       /\ engines[e] \in {"absent", "released"}
                       /\ \A x \in EngineIds :
                              x < e => engines[x] \notin {"absent", "released"}
                       /\ NextStep("bootstrap", [ho EXCEPT !.secondary = e],
                                   Launch(engines, e), d, call)
                ELSE HandoffFails("handoff_err", now + d, call)

\* Faulty variant: the envelope is imported although it is empty.
AfterBootstrap_always_imports(ok, cookies, local_storage) ==
    IF ~ok THEN "fail" ELSE "import"
\* Faulty variant: a failed bootstrap navigate does not stop a handoff that
\* has state to import.
AfterBootstrap_ignores_error(ok, cookies, local_storage) ==
    IF cookies = 0 /\ local_storage = 0 THEN (IF ok THEN "return" ELSE "fail")
    ELSE "import"
\* Faulty variant: a failed import does not stop the handoff.
AfterImport_ignores_error(ok) == "final"

\* What follows the bootstrap navigate: the error is returned, or the
\* bootstrap result is returned because the envelope is empty, or step 4.
AfterBootstrap(ok, cookies, local_storage) ==
    IF ~ok THEN "fail"
    ELSE IF cookies = 0 /\ local_storage = 0 THEN "return"
    ELSE "import"
\* What follows import_state.
AfterImport(ok) == IF ok THEN "final" ELSE "fail"

\* Step 3: secondary.navigate(); an empty envelope ends the handoff here.
HandoffBootstrap ==
    /\ pc = "bootstrap"
    /\ \E d \in Durations, bootstrap_result \in NavResults :
         LET call == Call("navigate", ho.secondary, HandoffUrl, bootstrap_result.ok,
                          bootstrap_result.meta, 0, 0)
             after == AfterBootstrap(bootstrap_result.ok, ho.cookies,
                                     ho.local_storage)
         IN  /\ InTime(d)
             /\ CASE after = "fail" -> HandoffFails("handoff_err", now + d, call)
                  [] after = "return" ->
                       HandoffSucceeds(bootstrap_result.meta, now + d, call, FALSE, 0)
                  [] OTHER -> NextStep("import", ho, engines, d, call)

\* Step 4: secondary.import_state(state).
HandoffImport ==
    /\ pc = "import"
    /\ \E d \in Durations, ok \in BOOLEAN :
         LET call == Call("import_state", ho.secondary, 0, ok, NoText,
                          ho.cookies, ho.local_storage)
         IN  /\ InTime(d)
             /\ IF AfterImport(ok) = "final"
                THEN NextStep("final", ho, engines, d, call)
                ELSE HandoffFails("handoff_err", now + d, call)

\* Step 5: secondary.navigate() with the state restored.
HandoffFinal ==
    /\ pc = "final"
    /\ \E d \in Durations, final_result \in NavResults :
         LET call == Call("navigate", ho.secondary, HandoffUrl, final_result.ok,
                          final_result.meta, 0, 0)
         IN  /\ InTime(d)
             /\ IF final_result.ok
                THEN HandoffSucceeds(final_result.meta, now + d, call, TRUE,
                                     ho.cookies + ho.local_storage)
                ELSE HandoffFails("handoff_err", now + d, call)

\* The call a handoff at step `step` is awaiting.
PendingCall(step) ==
    CASE step = "extract" -> Pending("extract_state", state.active_engine, 0, 0, 0)
      [] step = "create" -> Pending("create_for_escalation", Factory, 0, 0, 0)
      [] step = "import" -> Pending("import_state", ho.secondary, 0, ho.cookies,
                                    ho.local_storage)
      [] OTHER -> Pending("navigate", ho.secondary, HandoffUrl, 0, 0)

\* The Err(_timeout) arm: the budget elapses while a step is pending.
HandoffTimeout ==
    /\ pc \in HandoffPcs
    /\ \E d \in Durations : Expires(d)
    /\ HandoffFails("handoff_timeout", ho.start + ESCALATION_TIMEOUT,
                    PendingCall(pc))

\* ------------------------------------------------- the other request kinds
OperationReplies(result) == <<result>>

\* Evaluate and Screenshot: forward to the active engine, record health, reply.
Operation(kind) ==
    /\ Takes(kind)
    /\ \E ok \in BOOLEAN :
         /\ ~ok => state.consecutive_failures < MaxFailures
         /\ LET h == handle_operation_health(state, ok, now)
                result == IF ok THEN OkNum(0) ELSE Err
            IN  /\ state' = h.state
                /\ engines' = AfterHealth(engines, h.failed)
                /\ last' = Done(kind, ok, "plain", NoText, OperationReplies(result))
                /\ owed' = owed + 1 - Len(last'.replies)
                /\ probe' = ObserveOperation(probe, state.active_role, ok,
                                             h.failed # None)
    /\ queue' = Tail(queue)
    /\ UNCHANGED <<pc, next_page_id, engine_closed, now, ho>>

Evaluate == Operation("Evaluate")
Screenshot == Operation("Screenshot")

\* Faulty variant: the standby is left alone.
close_standby_primary_noop(st, g) == [state |-> st, engines |-> g]

\* close_standby_primary: the engines and the BrokerState it leaves.
close_standby_primary(st, g) ==
    IF st.standby_primary = None THEN [state |-> st, engines |-> g]
    ELSE [state |-> [st EXCEPT !.standby_primary = None],
          engines |-> DropEngine(CloseOn(g, st.standby_primary), st.standby_primary)]

\* The body shared by CloseBrowser and Shutdown.
CloseAll(st, g) == close_standby_primary(st, CloseOn(g, st.active_engine))

\* Faulty variant: a failed close of the standby fails the reply.
CloseReplies_standby(active_ok, standby_ok) ==
    <<IF active_ok /\ standby_ok THEN OkNum(0) ELSE Err>>

\* The reply is the result of closing the active engine; the result of closing
\* the standby is only logged.
CloseReplies(active_ok, standby_ok) == <<IF active_ok THEN OkNum(0) ELSE Err>>
\* How the request went: whether a held standby failed to close.
CloseOutcome(st, standby_ok) ==
    IF st.standby_primary # None /\ ~standby_ok THEN "standby_close_failed"
    ELSE "plain"

CloseBrowser ==
    /\ Takes("CloseBrowser")
    /\ \E active_ok \in BOOLEAN, standby_ok \in BOOLEAN :
         LET c == CloseAll(state, engines)
         IN  /\ state' = c.state
             /\ engines' = c.engines
             /\ engine_closed' = (engine_closed \/ active_ok)
             /\ last' = Done("CloseBrowser", active_ok,
                             CloseOutcome(state, standby_ok), NoText,
                             CloseReplies(active_ok, standby_ok))
             /\ owed' = owed + 1 - Len(last'.replies)
    /\ queue' = Tail(queue)
    /\ UNCHANGED <<probe, pc, next_page_id, now, ho>>

\* After the loop: close what is still open, then the BrokerState is dropped.
LoopExit(st, g, closed) ==
    LET g1 == IF closed THEN g ELSE CloseOn(g, st.active_engine)
        c == close_standby_primary(st, g1)
    IN  DropEngine(c.engines, st.active_engine)

Shutdown ==
    /\ Takes("Shutdown")
    /\ \E active_ok \in BOOLEAN, standby_ok \in BOOLEAN :
         LET c == CloseAll(state, engines)
             closed == engine_closed \/ active_ok
         IN  /\ state' = c.state
             /\ engine_closed' = closed
             /\ engines' = LoopExit(c.state, c.engines, closed)
             /\ last' = Done("Shutdown", active_ok,
                             CloseOutcome(state, standby_ok), NoText,
                             CloseReplies(active_ok, standby_ok))
             /\ owed' = owed + 1 - Len(last'.replies)
    /\ queue' = Tail(queue)
    /\ pc' = "exited"
    /\ UNCHANGED <<probe, next_page_id, now, ho>>

\* Every BrokerHandle is dropped with the queue drained: rx.recv() returns None.
ChannelClosed ==
    /\ pc = "recv"
    /\ queue = <<>>
    /\ engines' = LoopExit(state, engines, engine_closed)
    /\ state' = [state EXCEPT !.standby_primary = None]
    /\ pc' = "exited"
    /\ UNCHANGED <<probe, queue, next_page_id, engine_closed, now, ho, owed, last>>

Next ==
    \/ \E kind \in Kinds : Send(kind)
    \/ Tick
    \/ CreatePage
    \/ Navigate
    \/ HandoffExtract
    \/ HandoffCreate
    \/ HandoffBootstrap
    \/ HandoffImport
    \/ HandoffFinal
    \/ HandoffTimeout
    \/ Evaluate
    \/ Screenshot
    \/ CloseBrowser
    \/ Shutdown
    \/ ChannelClosed

Spec == Init /\ [][Next]_vars

\* ------------------------------------------------- the scorer on its own
\* ConfidenceScorer::score applied to Signals drawn around every threshold
\* the scorer compares against and at the top of each integer width.
loop_vars == <<queue, pc, state, next_page_id, engine_closed, engines, now,
               ho, owed, last>>

SignalInputs ==
    [first_paint_ms : {None, 3000, 3001, 8001},
     paint_element_count : {0, 50, U64_MAX},
     dom_element_count : {4, 19, 20, U64_MAX},
     dom_depth_max : {0},
     body_text_length : {49, 50},
     js_errors : {0, 3, 4, U32_MAX},
     unhandled_promise_rejections : {0, 2, 3},
     console_error_count : {0, U32_MAX},
     js_execution_time_ms : {5000, 5001},
     failed_resource_count : {0, 5, 6},
     cors_violations : {0, 2, 3},
     pending_requests_at_sample : {0, 1, U32_MAX},
     css_parse_failures : {3, 4},
     sampled_at_ms : {0}]

\* escalation_threshold: 0.0, the default 0.60, and 1.0.
Thresholds == {0, DEFAULT_THRESHOLD, 1000000}

NoReport ==
    [paint_score |-> 0, dom_score |-> 0, js_score |-> 0, network_score |-> 0,
     overall |-> 0, failure_reason |-> NoReason,
     decision |-> [tag |-> "none", reason |-> NoReason]]

InitScore ==
    /\ LoopStart
    /\ probe \in [kind : {"score"}, signals : SignalInputs,
                  threshold : Thresholds, done : {FALSE}, report : {NoReport}]

ScoreStep ==
    /\ probe.kind = "score"
    /\ ~probe.done
    /\ probe' = [probe EXCEPT !.done = TRUE,
                              !.report = score(probe.signals, probe.threshold)]
    /\ UNCHANGED loop_vars

NextScore == ScoreStep

SpecScore == InitScore /\ [][NextScore]_vars

\* ================================================================= claims
\* A request of one of `kinds` is taken off the queue in this step.
Taken(kinds) == pc = "recv" /\ queue # <<>> /\ Head(queue) \in kinds /\ queue' = Tail(queue)
\* A handoff ends in this step.
HandoffEnds == pc \in HandoffPcs /\ pc' = "recv"
FailedOutcomes == {"handoff_err", "handoff_timeout"}
IsMigrated(text) ==
    /\ text.form = "object"
    /\ "migrated" \in DOMAIN text.obj
    /\ text.obj["migrated"] = JBool(TRUE)
Escalates(text) ==
    score(signals_from_navigate_meta(text, 0), DEFAULT_THRESHOLD).decision.tag
        = "EscalateToLadybird"

\* C1: every request the loop takes off the queue gets exactly one reply, sent
\* before the loop takes the next request: between requests nothing is owed,
\* during a handoff exactly the current request's reply is owed, and the
\* request answered last was sent exactly one reply.
C1_ExactlyOneReply ==
    /\ pc \in {"recv", "exited"} => owed = 0
    /\ pc \in HandoffPcs => owed = 1
    /\ last.kind # "none" => Len(last.replies) = 1
C1_Witness ==
    pc = "recv" /\ last.outcome = "handoff_timeout" /\ Len(last.replies) = 1

\* C2: a Navigate whose active engine returned Ok is answered Ok, whether no
\* handoff ran, the handoff succeeded, a step failed or the handoff timed out.
C2_OkStaysOk ==
    (last.kind = "Navigate" /\ last.op_ok) =>
        \A i \in 1 .. Len(last.replies) : last.replies[i].ok
C2_Witness ==
    /\ last.kind = "Navigate" /\ last.op_ok /\ last.outcome = "handoff_err"
    /\ last.replies # <<>> /\ last.replies[1].ok

\* C3: between two requests, a standby is held iff the role is SecondaryProxy.
C3_StandbyIffSecondary ==
    pc = "recv" =>
        ((state.standby_primary # None) <=> (state.active_role = SecondaryProxy))

\* C4: when the loop takes a request, it is never the case that the role is
\* SecondaryProxy with the failure budget exhausted.
C4_NoExhaustedSecondary ==
    pc = "recv" =>
        ~(state.active_role = SecondaryProxy
          /\ state.consecutive_failures >= ACTIVE_FAILURE_BUDGET)

\* C5: a handoff that fails at a step or times out leaves the BrokerState as
\* it was when the handoff started (role Primary, no standby, the same
\* counter and backoff deadline) and the reply is the primary's Ok result.
C5_FailedHandoffFrame ==
    [][(HandoffEnds /\ last'.outcome \in FailedOutcomes) =>
          /\ state' = ho.before
          /\ state'.active_role = Primary
          /\ state'.standby_primary = None
          /\ ho.result.ok
          /\ last'.replies = <<ho.result>>]_vars
C5_Witness ==
    /\ last.outcome \in FailedOutcomes
    /\ \E e \in EngineIds : engines[e] = "leaked"
    /\ state.active_role = Primary
    /\ state.standby_primary = None

\* C6: a handoff whose steps all succeed ends with the factory's secondary
\* active, the former primary as standby, role SecondaryProxy and the counter
\* at 0, all in the step that answers the request; until then the BrokerState
\* is the one the handoff started from.
C6_AtomicAdoption ==
    /\ [](pc \in HandoffPcs => state = ho.before)
    /\ [][(HandoffEnds /\ last'.outcome = "handoff_ok") =>
             /\ ho.secondary # None
             /\ state'.active_engine = ho.secondary
             /\ state'.standby_primary = state.active_engine
             /\ state'.active_role = SecondaryProxy
             /\ state'.consecutive_failures = 0
             /\ engines'[ho.secondary] = "live"]_vars
C6_Witness ==
    /\ pc = "recv" /\ last.outcome = "handoff_ok"
    /\ state.active_role = SecondaryProxy
    /\ state.active_engine = 2 /\ state.standby_primary = 1

\* C7 as stated: after a successful handoff the reply carries migrated: true
\* for every metadata string the secondary's navigate can return.
C7_AlwaysMigrated ==
    last.outcome = "handoff_ok" =>
        /\ Len(last.replies) = 1
        /\ last.replies[1].ok
        /\ IsMigrated(last.replies[1].meta)

\* C7 amended: after a successful handoff the reply is Ok with the secondary's
\* metadata: when that metadata is a JSON object the reply is that object
\* with migrated set to true and every other key unchanged; metadata that is
\* not a JSON object is sent as the secondary returned it.
C7_MigratedWhenObject ==
    last.outcome = "handoff_ok" =>
        /\ Len(last.replies) = 1
        /\ last.replies[1].ok
        /\ LET m == last.served
               r == last.replies[1].meta
           IN  IF m.form = "object"
               THEN /\ IsMigrated(r)
                    /\ DOMAIN r.obj = DOMAIN m.obj \cup {"migrated"}
                    /\ \A k \in DOMAIN m.obj \ {"migrated"} : r.obj[k] = m.obj[k]
               ELSE r = m
C7_Witness ==
    /\ last.outcome = "handoff_ok"
    /\ last.served.form = "object"
    /\ "migrated" \in DOMAIN last.served.obj
    /\ last.served.obj["migrated"] = JBool(FALSE)
    /\ IsMigrated(last.replies[1].meta)

\* C8: a Navigate whose (stamped) result is Ok and scores Escalate starts a
\* handoff iff at that moment the role is Primary, no standby is held and the
\* backoff deadline is unset or not later than the clock.
Eligible(st, t) ==
    /\ st.active_role = Primary
    /\ st.standby_primary = None
    /\ (st.escalation_backoff_until = None \/ t >= st.escalation_backoff_until)
C8_HandoffIffEligible ==
    [][LET result == IF pc' = "extract" THEN ho'.result ELSE last'.replies[1]
       IN  (Taken({"Navigate"}) /\ result.ok /\ Escalates(result.meta)) =>
               (pc' = "extract" <=> Eligible(state', now))]_vars
C8_Witness ==
    /\ last.kind = "Navigate" /\ last.outcome = "skipped"
    /\ state.active_role = Primary
    /\ state.escalation_backoff_until # None
    /\ now < state.escalation_backoff_until

\* C9: a failed navigate, evaluate or screenshot on the secondary, with a
\* standby held, that brings the counter to the budget rolls back before the
\* reply: the standby is active again, the role is Primary, the standby slot
\* is empty, the counter is 0, the backoff deadline is now + 30 s and close was
\* invoked on the replaced secondary.
C9_RollbackOnBudget ==
    [][(/\ Taken({"Navigate", "Evaluate", "Screenshot"})
        /\ ~last'.op_ok
        /\ state.active_role = SecondaryProxy
        /\ state.standby_primary # None
        /\ state.consecutive_failures = ACTIVE_FAILURE_BUDGET - 1) =>
          /\ state'.active_engine = state.standby_primary
          /\ state'.active_role = Primary
          /\ state'.standby_primary = None
          /\ state'.consecutive_failures = 0
          /\ state'.escalation_backoff_until = now + ESCALATION_BACKOFF_AFTER_ROLLBACK
          /\ engines'[state.active_engine] = "released"
          /\ Len(last'.replies) = 1 /\ ~last'.replies[1].ok]_vars
C9_Witness ==
    /\ last.kind \in {"Navigate", "Evaluate", "Screenshot"} /\ ~last.op_ok
    /\ state.active_role = Primary
    /\ state.consecutive_failures = 0
    /\ state.escalation_backoff_until = now + ESCALATION_BACKOFF_AFTER_ROLLBACK
    /\ engines[2] = "released"

\* C10: while the loop runs, every secondary the factory returned is adopted
\* or has had close invoked on it: none is dropped unclosed.
C10_NoLeakedSecondary ==
    pc # "exited" => \A e \in EngineIds : engines[e] # "leaked"

\* The loop exits in this step.
LoopExits == pc # "exited" /\ pc' = "exited"
\* Requests accepted into the channel and not answered.
Unanswered == Len(queue) + owed

\* C11: when the loop exits, close has been invoked on the engines the broker
\* owns at that point, the active engine and the standby if one is held,
\* before they are dropped.
C11_ExitClosesOwned ==
    [][LoopExits =>
          /\ engines'[state.active_engine] = "released"
          /\ state.standby_primary # None =>
                 engines'[state.standby_primary] = "released"]_vars

\* C12: every request accepted into the channel is answered exactly once,
\* whatever its place in the queue relative to a Shutdown: once the loop has
\* exited no accepted request is left unanswered.
C12_EveryAcceptedAnswered ==
    /\ pc = "exited" => Unanswered = 0
    /\ last.kind # "none" => Len(last.replies) = 1

\* C13: requests are handled one at a time in the order they were enqueued:
\* the queue changes only by a send at its tail or by the loop taking its
\* head, the head is taken only between requests with no reply owed, and a
\* handoff in progress keeps the BrokerState of its Navigate until the step
\* that ends it.
C13_OneAtATime ==
    [][/\ queue' # queue =>
            \/ \E kind \in Kinds : queue' = Append(queue, kind)
            \/ pc = "recv" /\ owed = 0 /\ queue # <<>> /\ queue' = Tail(queue)
       /\ pc \in HandoffPcs =>
            /\ Len(queue') >= Len(queue)
            /\ pc' \in HandoffPcs \cup {"recv"}
            /\ pc' \in HandoffPcs => (state' = state /\ owed' = 1)
            /\ next_page_id' = next_page_id /\ engine_closed' = engine_closed]_vars
C13_Witness ==
    /\ pc = "recv" /\ last.outcome = "handoff_ok" /\ Len(queue) >= 2
    /\ state.active_role = SecondaryProxy

\* A Navigate the active engine answered Ok without a handoff being run.
ServedWithoutHandoff ==
    /\ last.kind = "Navigate" /\ last.op_ok
    /\ last.outcome \in {"no_escalation", "skipped"}
    /\ Len(last.replies) = 1 /\ last.replies[1].ok
\* reply is the object `served` with migrated set to true, all else unchanged.
StampedFrom(served, reply) ==
    /\ IsMigrated(reply)
    /\ DOMAIN reply.obj = DOMAIN served.obj \cup {"migrated"}
    /\ \A k \in DOMAIN served.obj \ {"migrated"} : reply.obj[k] = served.obj[k]

\* C14 as stated: every Ok Navigate reply produced while the role is
\* SecondaryProxy carries migrated: true.
C14_SecondaryAlwaysMigrated ==
    (ServedWithoutHandoff /\ state.active_role = SecondaryProxy) =>
        IsMigrated(last.replies[1].meta)

\* C14 amended: an Ok Navigate reply produced while the role is SecondaryProxy
\* is the engine's metadata object with migrated set to true, whatever
\* migrated value the engine returned, when the metadata is a JSON object;
\* metadata that is not a JSON object is replied as the engine returned it.
C14_SecondaryMigratedWhenObject ==
    (ServedWithoutHandoff /\ state.active_role = SecondaryProxy) =>
        IF last.served.form = "object"
        THEN StampedFrom(last.served, last.replies[1].meta)
        ELSE last.replies[1].meta = last.served
C14_Witness ==
    /\ ServedWithoutHandoff /\ state.active_role = SecondaryProxy
    /\ last.served.form = "object"
    /\ "migrated" \in DOMAIN last.served.obj
    /\ last.served.obj["migrated"] = JBool(FALSE)
    /\ IsMigrated(last.replies[1].meta)

\* C15: the steps of a handoff share one budget measured from its start: the
\* time spent so far never exceeds it while a step returns, a handoff that ends
\* by a step's result ends within the budget, and a handoff whose pending step
\* outlasts the budget is abandoned at the deadline with the BrokerState it
\* started from (the secondary not adopted) and the primary's result as reply.
C15_SharedBudget ==
    /\ [](pc \in HandoffPcs =>
            /\ ho.elapsed <= ESCALATION_TIMEOUT
            /\ now = ho.start + ho.elapsed)
    /\ [][HandoffEnds =>
            IF last'.outcome = "handoff_timeout"
            THEN /\ now' = ho.start + ESCALATION_TIMEOUT
                 /\ state' = ho.before
                 /\ state'.active_role = Primary
                 /\ state'.active_engine # ho.secondary
                 /\ last'.replies = <<ho.result>>
            ELSE now' <= ho.start + ESCALATION_TIMEOUT]_vars
C15_Witness ==
    /\ pc = "recv" /\ last.outcome = "handoff_timeout"
    /\ engines[2] = "leaked"
    /\ state.active_engine = 1 /\ state.active_role = Primary
    /\ last.replies[1].ok

\* C16: a Navigate served while the role is Primary whose decision is Stay is
\* answered with exactly the metadata the engine returned, starts no handoff,
\* touches no engine, and leaves role, standby and backoff deadline unchanged.
C16_StayIsUntouched ==
    [][LET handoff == pc' = "extract"
           ok == IF handoff THEN ho'.result.ok ELSE last'.op_ok
           meta == IF handoff THEN ho'.result.meta ELSE last'.served
       IN  (Taken({"Navigate"}) /\ state.active_role = Primary /\ ok
            /\ ~Escalates(meta)) =>
               /\ ~handoff
               /\ last'.replies = <<Ok(meta)>>
               /\ engines' = engines
               /\ state'.active_engine = state.active_engine
               /\ state'.active_role = state.active_role
               /\ state'.standby_primary = state.standby_primary
               /\ state'.escalation_backoff_until = state.escalation_backoff_until]_vars
C16_Witness ==
    /\ last.kind = "Navigate" /\ last.outcome = "no_escalation"
    /\ state.active_role = Primary
    /\ last.served = HealthyMeta
    /\ last.replies = <<Ok(HealthyMeta)>>

\* The result of closing the active engine, as a reply.
ActiveCloseResult(active_ok) == <<IF active_ok THEN OkNum(0) ELSE Err>>

\* C17: processing a Shutdown invokes close on the active engine and on the
\* standby if one is held, replies with the result of closing the active
\* engine and ends the loop; after that nothing is taken off the queue and no
\* engine is touched.
C17_ShutdownTerminates ==
    /\ [][Taken({"Shutdown"}) =>
            /\ engines'[state.active_engine] = "released"
            /\ state.standby_primary # None =>
                   engines'[state.standby_primary] = "released"
            /\ last'.kind = "Shutdown"
            /\ last'.replies = ActiveCloseResult(last'.op_ok)
            /\ pc' = "exited"]_vars
    /\ [][pc # "exited"]_vars
C17_Witness ==
    /\ pc = "exited" /\ last.kind = "Shutdown" /\ queue # <<>>
    /\ state.active_role = SecondaryProxy
    /\ engines[1] = "released" /\ engines[2] = "released"

\* C18: processing a CloseBrowser invokes close on the active engine and on
\* the standby if one is held, replies with the result of closing the active
\* engine whether or not closing the standby failed, and the loop goes on.
C18_CloseBrowserReply ==
    [][Taken({"CloseBrowser"}) =>
          /\ engines'[state.active_engine] = "closed"
          /\ state.standby_primary # None =>
                 engines'[state.standby_primary] = "released"
          /\ last'.kind = "CloseBrowser"
          /\ last'.replies = ActiveCloseResult(last'.op_ok)
          /\ pc' = "recv"]_vars
C18_Witness ==
    /\ pc = "recv" /\ last.kind = "CloseBrowser"
    /\ last.outcome = "standby_close_failed"
    /\ last.op_ok /\ last.replies = <<OkNum(0)>>

\* C19: the loop stops only by processing a Shutdown or because the channel
\* is closed with nothing queued; after anything else (a failed operation, a
\* failed or timed-out handoff, a rollback, a failed close) the loop is back
\* at its receive, or inside the handoff of the Navigate it is serving.
C19_StopsOnlyOnShutdown ==
    /\ [][LoopExits =>
            /\ pc = "recv"
            /\ queue = <<>> \/ Head(queue) = "Shutdown"]_vars
    /\ [][(Taken(Kinds \ {"Shutdown"}) \/ HandoffEnds) =>
            pc' \in HandoffPcs \cup {"recv"}]_vars
C19_Witness ==
    /\ pc = "recv" /\ queue # <<>>
    /\ last.kind = "Evaluate" /\ ~last.op_ok
    /\ state.active_role = Primary
    /\ state.escalation_backoff_until = now + ESCALATION_BACKOFF_AFTER_ROLLBACK
    /\ engines[2] = "released"
    /\ engine_closed

\* C20: the first CreatePage is answered 1, each later one an id one greater
\* until the counter's maximum is reached, where it stays; no other request
\* changes the counter.
C20_PageIds ==
    /\ next_page_id = 1
    /\ [][IF Taken({"CreatePage"})
          THEN /\ last'.kind = "CreatePage"
               /\ last'.replies = <<OkNum(next_page_id)>>
               /\ next_page_id' =
                      IF next_page_id < MaxPageId THEN next_page_id + 1
                      ELSE MaxPageId
          ELSE next_page_id' = next_page_id]_vars
C20_Witness ==
    /\ last.kind = "CreatePage"
    /\ last.replies = <<OkNum(MaxPageId)>>
    /\ next_page_id = MaxPageId
    /\ state.active_role = SecondaryProxy

\* ------------------------------------------- the failure budget on its own
\* record_failure and record_success called in any order on a fresh
\* BrokerState, as the unit tests do; calls is the log of the calls made and
\* of the flag each record_failure returned.
InitBudget ==
    /\ LoopStart
    /\ probe = [kind |-> "budget", state |-> NewBrokerState(1), calls |-> <<>>]

CallRecordFailure ==
    /\ probe.kind = "budget"
    /\ Len(probe.calls) < MaxCalls
    /\ LET r == record_failure(probe.state)
       IN  probe' = [probe EXCEPT
               !.state = r.state,
               !.calls = Append(@, [op |-> "record_failure",
                                    exhausted |-> r.exhausted])]
    /\ UNCHANGED loop_vars

CallRecordSuccess ==
    /\ probe.kind = "budget"
    /\ Len(probe.calls) < MaxCalls
    /\ probe' = [probe EXCEPT
           !.state = record_success(probe.state),
           !.calls = Append(@, [op |-> "record_success", exhausted |-> FALSE])]
    /\ UNCHANGED loop_vars

NextBudget == CallRecordFailure \/ CallRecordSuccess

SpecBudget == InitBudget /\ [][NextBudget]_vars

\* ------------------------------------------ the loop with its callers
\* BrokerHandle::round_trip seen from the callers: calls is the number of
\* calls made, failed the number that returned an error without a reply of
\* the broker, rx_dropped whether run_with_factory has returned and dropped
\* the receiver.  A call whose request is in the channel or in service is
\* blocked in blocking_recv.
InitLive ==
    /\ LoopStart
    /\ probe = [kind |-> "callers", calls |-> 0, failed |-> 0, rx_dropped |-> FALSE]

\* tx.send succeeds: the receiver is alive.
RoundTripSend(kind) ==
    /\ probe.kind = "callers"
    /\ ~probe.rx_dropped
    /\ probe.calls < MaxCallers
    /\ Len(queue) < MaxQueue
    /\ queue' = Append(queue, kind)
    /\ probe' = [probe EXCEPT !.calls = @ + 1]
    /\ UNCHANGED <<pc, state, next_page_id, engine_closed, engines, now, ho,
                   owed, last>>

\* tx.send fails: "broker request channel closed".
RoundTripFails ==
    /\ probe.kind = "callers"
    /\ probe.rx_dropped
    /\ probe.calls < MaxCallers
    /\ probe' = [probe EXCEPT !.calls = @ + 1, !.failed = @ + 1]
    /\ UNCHANGED loop_vars

\* Faulty variant: the receiver outlives the loop with the requests in it.
AfterReturn_receiver_kept(q) == q
\* What is left in the channel once run_with_factory has returned: rx is
\* dropped, and with it every request still queued and its reply sender.
AfterReturn(q) == <<>>

\* run_with_factory returns: every caller whose request was still queued
\* gets "broker reply channel closed".
ReceiverDropped ==
    /\ probe.kind = "callers"
    /\ pc = "exited"
    /\ ~probe.rx_dropped
    /\ queue' = AfterReturn(queue)
    /\ probe' = [probe EXCEPT !.rx_dropped = (queue' = <<>>),
                              !.failed = @ + Len(queue) - Len(queue')]
    /\ UNCHANGED <<pc, state, next_page_id, engine_closed, engines, now, ho,
                   owed, last>>

\* One step of the service loop or of the handoff it is running.
LoopStep ==
    \/ CreatePage
    \/ Navigate
    \/ HandoffExtract
    \/ HandoffCreate
    \/ HandoffBootstrap
    \/ HandoffImport
    \/ HandoffFinal
    \/ HandoffTimeout
    \/ Evaluate
    \/ Screenshot
    \/ CloseBrowser
    \/ Shutdown

NextLive ==
    \/ \E kind \in Kinds : RoundTripSend(kind)
    \/ RoundTripFails
    \/ ReceiverDropped
    \/ Tick
    \/ LoopStep

\* The loop's task is scheduled whenever it can take a step, every engine
\* and factory operation terminates (or the handoff's timeout fires), and
\* run_with_factory returns once the loop has exited.
SpecLive ==
    InitLive /\ [][NextLive]_vars /\ WF_vars(LoopStep) /\ WF_vars(ReceiverDropped)

\* --------------------------------------- the health handler on its own
\* handle_operation_health called with Ok and Err results in any order on a
\* BrokerState in role Primary: fresh or after a rollback (a backoff deadline
\* is set), with the counter at 0 or close to the top of its width.
InitHealth ==
    /\ LoopStart
    /\ probe \in {[kind |-> "health",
                   state |-> [NewBrokerState(1) EXCEPT
                                 !.consecutive_failures = n,
                                 !.escalation_backoff_until = b],
                   calls |-> <<>>] :
                     n \in {0, U32_MAX - 1},
                     b \in {None, ESCALATION_BACKOFF_AFTER_ROLLBACK}}

CallHandleOperationHealth ==
    /\ probe.kind = "health"
    /\ Len(probe.calls) < MaxCalls
    /\ \E ok \in BOOLEAN :
         LET h == handle_operation_health(probe.state, ok, 0)
         IN  probe' = [probe EXCEPT
                 !.state = h.state,
                 !.calls = Append(@, [ok |-> ok, before |-> probe.state,
                                      after |-> h.state, failed |-> h.failed])]
    /\ UNCHANGED loop_vars

NextHealth == CallHandleOperationHealth

SpecHealth == InitHealth /\ [][NextHealth]_vars

\* ------------------------------------------------ the handoff on its own
\* Navigate requests served by a fresh broker, with every call that
\* perform_handoff makes recorded: the unit tests' recording engines and factory.
InitHandoff == LoopStart /\ probe = HandoffProbe(0, 1)

NextHandoff ==
    \/ Send("Navigate")
    \/ Navigate
    \/ HandoffExtract
    \/ HandoffCreate
    \/ HandoffBootstrap
    \/ HandoffImport
    \/ HandoffFinal
    \/ HandoffTimeout

SpecHandoff == InitHandoff /\ [][NextHandoff]_vars

\* --------------------------------------------- the loop with its history
\* The service loop, with the operations on the secondary and the switches
\* of engines followed.
InitHistory == LoopStart /\ probe = HistoryProbe

SpecHistory == InitHistory /\ [][Next]_vars

\* ------------------------------------------------------ claims, the scorer
Scored == probe.kind = "score" /\ probe.done
Unit(x) == 0 <= x /\ x <= 10000

\* C21: for every Signals the paint, dom, js and network sub-scores and the
\* overall score lie in [0, 1].
C21_ScoresInUnitInterval ==
    Scored =>
        /\ Unit(probe.report.paint_score)
        /\ Unit(probe.report.dom_score)
        /\ Unit(probe.report.js_score)
        /\ Unit(probe.report.network_score)
        /\ 0 <= probe.report.overall /\ probe.report.overall <= 1000000
C21_Witness ==
    /\ Scored
    /\ probe.signals.js_errors = U32_MAX
    /\ probe.signals.console_error_count = U32_MAX
    /\ probe.signals.pending_requests_at_sample = U32_MAX
    /\ probe.signals.paint_element_count = U64_MAX
    /\ probe.signals.dom_element_count = U64_MAX
    /\ probe.report.js_score = 0
    /\ probe.report.paint_score = 10000
    /\ probe.report.dom_score = 10000

\* C22: for every Signals with first_paint_ms absent, whatever the other
\* fields and the threshold, paint_score is 0, the failure reason is ZeroPaint
\* and the decision is Escalate(ZeroPaint).
C22_AbsentPaintEscalates ==
    (Scored /\ probe.signals.first_paint_ms = None) =>
        /\ probe.report.paint_score = 0
        /\ probe.report.failure_reason = Reason("ZeroPaint", 0)
        /\ probe.report.decision =
               [tag |-> "EscalateToLadybird", reason |-> Reason("ZeroPaint", 0)]
C22_Witness ==
    /\ Scored /\ probe.signals.first_paint_ms = None
    /\ probe.threshold = 0
    /\ probe.signals.dom_element_count = U64_MAX
    /\ probe.signals.js_errors = 0
    /\ probe.report.decision.tag = "EscalateToLadybird"

\* The rules of the classification, as conditions on the signals and the
\* two sub-scores they read.
RuleZeroPaint == probe.report.paint_score = 0
RuleSpaStall == probe.report.dom_score <= 2000
RuleJsCrash ==
    probe.signals.js_errors > 3 \/ probe.signals.unhandled_promise_rejections > 2
RuleNetwork ==
    probe.signals.failed_resource_count > 5 \/ probe.signals.cors_violations > 2
RuleCss == probe.signals.css_parse_failures > 3
RuleSlow == probe.signals.js_execution_time_ms > 5000

\* C23: the failure classification is the first matching rule in the order
\* ZeroPaint (paint score 0), SpaPrehydrationStall (dom score <= 0.2),
\* JsCrashLoop (js_errors > 3 or unhandled rejections > 2, carrying js_errors),
\* NetworkStarvation (failed resources > 5 or CORS violations > 2, carrying the
\* failed resource count), CssLayoutCollapse (css parse failures > 3),
\* SlowExecution (js execution time > 5000 ms, carrying the time), and none
\* when no rule matches.
C23_FirstMatchingRule ==
    Scored =>
        LET r == probe.report.failure_reason IN
        /\ RuleZeroPaint => r = Reason("ZeroPaint", 0)
        /\ (~RuleZeroPaint /\ RuleSpaStall) => r = Reason("SpaPrehyrationStall", 0)
        /\ (~RuleZeroPaint /\ ~RuleSpaStall /\ RuleJsCrash) =>
               r = Reason("JsCrashLoop", probe.signals.js_errors)
        /\ (~RuleZeroPaint /\ ~RuleSpaStall /\ ~RuleJsCrash /\ RuleNetwork) =>
               r = Reason("NetworkStarvation", probe.signals.failed_resource_count)
        /\ (~RuleZeroPaint /\ ~RuleSpaStall /\ ~RuleJsCrash /\ ~RuleNetwork
              /\ RuleCss) => r = Reason("CssLayoutCollapse", 0)
        /\ (~RuleZeroPaint /\ ~RuleSpaStall /\ ~RuleJsCrash /\ ~RuleNetwork
              /\ ~RuleCss /\ RuleSlow) =>
               r = Reason("SlowExecution", probe.signals.js_execution_time_ms)
        /\ (~RuleZeroPaint /\ ~RuleSpaStall /\ ~RuleJsCrash /\ ~RuleNetwork
              /\ ~RuleCss /\ ~RuleSlow) => r = NoReason
C23_Witness ==
    /\ Scored
    /\ ~RuleZeroPaint /\ RuleSpaStall /\ RuleJsCrash /\ RuleNetwork
    /\ RuleCss /\ RuleSlow
    /\ probe.report.failure_reason = Reason("SpaPrehyrationStall", 0)

\* C24: the decision is Escalate(r) when the classification gave a reason r;
\* without a reason it is Stay exactly when overall >= threshold (a score
\* equal to the threshold stays) and Escalate(ZeroPaint) otherwise; Retry is
\* never the decision.
C24_Decision ==
    Scored =>
        LET r == probe.report.failure_reason
            d == probe.report.decision IN
        /\ r # NoReason => d = [tag |-> "EscalateToLadybird", reason |-> r]
        /\ (r = NoReason /\ probe.report.overall >= probe.threshold) =>
               d.tag = "StayOnServo"
        /\ (r = NoReason /\ probe.report.overall < probe.threshold) =>
               d = [tag |-> "EscalateToLadybird", reason |-> Reason("ZeroPaint", 0)]
        /\ d.tag # "RetryWithPatches"
C24_Witness ==
    /\ Scored
    /\ probe.threshold = DEFAULT_THRESHOLD
    /\ probe.report.failure_reason = NoReason
    /\ probe.report.overall = DEFAULT_THRESHOLD
    /\ probe.report.decision.tag = "StayOnServo"

\* ---------------------------------------------- claims, the failure budget
\* The number of record_failure calls in a row that end at call i.
RECURSIVE FailuresInARow(_, _)
FailuresInARow(calls, i) ==
    IF i = 0 \/ calls[i].op # "record_failure" THEN 0
    ELSE 1 + FailuresInARow(calls, i - 1)

\* C25: from a zero counter, record_failure does not report the budget
\* exhausted on the first or second call in a row and reports it on the
\* third; record_success puts the counter back to 0, so the count of calls in
\* a row starts again after every success.
C25_ThirdFailureExhausts ==
    probe.kind = "budget" =>
        /\ \A i \in 1..Len(probe.calls) :
              LET k == FailuresInARow(probe.calls, i) IN
              /\ k \in {1, 2} => ~probe.calls[i].exhausted
              /\ k = 3 => probe.calls[i].exhausted
        /\ (probe.calls # <<>> /\ probe.calls[Len(probe.calls)].op = "record_success")
              => probe.state.consecutive_failures = 0
C25_Witness ==
    /\ probe.kind = "budget"
    /\ Len(probe.calls) = 6
    /\ \A i \in {1, 2, 4, 5, 6} : probe.calls[i].op = "record_failure"
    /\ probe.calls[3].op = "record_success"
    /\ ~probe.calls[5].exhausted
    /\ probe.calls[6].exhausted

\* ------------------------------------------------------ claims, the handoff
HandoffOrder ==
    <<"extract_state", "create_for_escalation", "navigate", "import_state",
      "navigate">>
\* perform_handoff has made at least one call; it has returned or was dropped.
Observed == probe.kind = "handoff" /\ probe.calls # <<>>
Ended == Observed /\ pc \notin HandoffPcs
\* The request answered last is the Navigate that ran the handoff.
JustEnded == Ended /\ last.outcome \in {"handoff_ok"} \cup FailedOutcomes
EmptyEnvelope ==
    probe.calls[1].cookies = 0 /\ probe.calls[1].local_storage = 0

\* C26: perform_handoff makes its calls in the order extract_state on the
\* primary, create_for_escalation on the factory, navigate, import_state,
\* navigate on the secondary, both navigates with the request's url and opts;
\* a call that fails is the last one made and the handoff returns an error.
C26_StepOrder ==
    Observed =>
        LET calls == probe.calls
            n == Len(probe.calls) IN
        /\ n <= 5
        /\ \A i \in 1..n : calls[i].op = HandoffOrder[i]
        /\ calls[1].on = probe.primary
        /\ n >= 2 => calls[2].on = Factory
        /\ \A i \in 3..n :
              calls[i].on = calls[3].on /\ calls[i].on \notin {probe.primary, Factory}
        /\ \A i \in 1..n : calls[i].op = "navigate" => calls[i].url = probe.url
        /\ \A i \in 1..(n - 1) : calls[i].result = "ok"
        /\ pc \in HandoffPcs => calls[n].result = "ok"
        /\ (Ended /\ calls[n].result # "ok") => ~probe.returned.ok
        /\ (JustEnded /\ calls[n].result = "err") => last.outcome = "handoff_err"
        /\ (Ended /\ probe.returned.ok) => probe.returned.secondary = calls[3].on
C26_Witness ==
    /\ Ended
    /\ Len(probe.calls) = 4
    /\ probe.calls[4].op = "import_state" /\ probe.calls[4].result = "err"
    /\ ~probe.returned.ok
    /\ last.outcome = "handoff_err"

\* C27: with an empty envelope the handoff invokes neither import_state nor a
\* second navigate and, when the bootstrap navigate succeeds, returns its
\* metadata with performed_final_navigate = false and imported_entry_count =
\* 0; with a non-empty envelope a successful handoff has invoked import_state
\* once and then the final navigate, and returns performed_final_navigate =
\* true and imported_entry_count = cookies + local-storage entries.
C27_EmptyEnvelopeShortcut ==
    Observed =>
        LET calls == probe.calls
            n == Len(probe.calls)
            r == probe.returned IN
        /\ EmptyEnvelope =>
              /\ n <= 3
              /\ \A i \in 1..n : calls[i].op # "import_state"
              /\ (Ended /\ n = 3 /\ calls[3].result = "ok") =>
                    /\ r.ok
                    /\ r.result_json = calls[3].meta
                    /\ ~r.performed_final_navigate
                    /\ r.imported_entry_count = 0
        /\ (~EmptyEnvelope /\ Ended /\ r.ok) =>
              /\ n = 5
              /\ Cardinality({i \in 1..n : calls[i].op = "import_state"}) = 1
              /\ calls[4].op = "import_state" /\ calls[5].op = "navigate"
              /\ calls[4].cookies = calls[1].cookies
              /\ calls[4].local_storage = calls[1].local_storage
              /\ r.result_json = calls[5].meta
              /\ r.performed_final_navigate
              /\ r.imported_entry_count = calls[1].cookies + calls[1].local_storage
C27_Witness ==
    /\ Ended
    /\ EmptyEnvelope
    /\ Len(probe.calls) = 3
    /\ probe.returned.ok
    /\ ~probe.returned.performed_final_navigate
    /\ probe.returned.result_json = probe.calls[3].meta
    /\ last.outcome = "handoff_ok"

\* C28: import_state is invoked on an engine only after a navigate to the
\* request's url has returned Ok on that same engine; it is never invoked on
\* the primary, nor on a secondary whose bootstrap navigate failed.
C28_ImportAfterNavigate ==
    Observed =>
        \A i \in 1..Len(probe.calls) :
            probe.calls[i].op = "import_state" =>
                /\ probe.calls[i].on # probe.primary
                /\ \E j \in 1..(i - 1) :
                      /\ probe.calls[j].op = "navigate"
                      /\ probe.calls[j].on = probe.calls[i].on
                      /\ probe.calls[j].url = probe.url
                      /\ probe.calls[j].result = "ok"
C28_Witness ==
    /\ Observed
    /\ pc = "final"
    /\ probe.calls[Len(probe.calls)].op = "import_state"
    /\ probe.calls[3].result = "ok"

\* --------------------------------------------- claims, adoption and rollback
\* A step that adopts a secondary: the active engine becomes the standby.
Adopts ==
    /\ state'.active_engine # state.active_engine
    /\ state'.standby_primary = state.active_engine
\* A step that rolls back: the standby becomes the active engine again.
RollsBack ==
    /\ state.standby_primary # None
    /\ state'.active_engine = state.standby_primary
\* The engines the broker holds: made and not dropped.
Owned == {e \in EngineIds : engines[e] \in {"live", "closed"}}

\* C29: a rollback happens only in role SecondaryProxy, on a failed navigate,
\* evaluate or screenshot that is the third failed operation in a row since
\* the secondary was adopted (the count starts at 0 at adoption and again
\* after every successful operation).
C29_RollbackOnThirdFailure ==
    [][RollsBack =>
          /\ state.active_role = SecondaryProxy
          /\ state'.active_role = Primary
          /\ last'.kind \in {"Navigate", "Evaluate", "Screenshot"}
          /\ ~last'.op_ok
          /\ probe.failed_in_a_row = ACTIVE_FAILURE_BUDGET - 1
          /\ state.consecutive_failures = probe.failed_in_a_row]_vars
C29_Witness ==
    /\ probe.kind = "history"
    /\ probe.last_switch = "rollback"
    /\ state.active_role = Primary
    /\ last.kind = "Screenshot" /\ ~last.op_ok
    /\ state.escalation_backoff_until = now + ESCALATION_BACKOFF_AFTER_ROLLBACK

\* C30: adoptions and rollbacks alternate, starting with an adoption: a
\* secondary is adopted only when the last switch was not an adoption, a
\* rollback happens only when the last switch was an adoption; the broker
\* holds at most two engines, and runs no handoff while it holds a standby.
C30_AdoptRollbackAlternate ==
    /\ [][/\ Adopts => probe.last_switch # "adoption" /\ probe'.last_switch = "adoption"
          /\ RollsBack => probe.last_switch = "adoption" /\ probe'.last_switch = "rollback"
          /\ probe'.last_switch # probe.last_switch => Adopts \/ RollsBack]_vars
    /\ [](probe.kind = "history" =>
            /\ Cardinality(Owned) <= 2
            /\ pc \in HandoffPcs => state.standby_primary = None)
C30_Witness ==
    /\ probe.kind = "history"
    /\ probe.last_switch = "adoption"
    /\ state.active_role = SecondaryProxy
    /\ state.escalation_backoff_until # None
    /\ Cardinality(Owned) = 2

\* ------------------------------------------- claims, one handoff per request
\* The calls of the handoff that create_for_escalation was.
FactoryCalls ==
    {i \in 1..Len(probe.calls) : probe.calls[i].op = "create_for_escalation"}

\* C31: during one Navigate request create_for_escalation is invoked at most
\* once and the active engine changes at most once: the Navigate that starts a
\* handoff has not switched engines itself, the engines switch during a
\* handoff only at its end, and that step sends the secondary's metadata
\* (stamped, not scored again) and finishes the request.
C31_SingleShotEscalation ==
    /\ [](probe.kind = "handoff" => Cardinality(FactoryCalls) <= 1)
    /\ [][/\ (pc = "recv" /\ pc' \in HandoffPcs) =>
                state'.active_engine = state.active_engine
          /\ (pc \in HandoffPcs /\ pc' \in HandoffPcs) => state' = state
          /\ (pc \in HandoffPcs /\ state'.active_engine # state.active_engine) =>
                /\ pc' = "recv"
                /\ owed' = owed - 1
                /\ last'.replies =
                       <<Ok(stamp_migrated(probe'.returned.result_json, TRUE))>>]_vars
C31_Witness ==
    /\ JustEnded
    /\ pc = "recv"
    /\ last.outcome = "handoff_ok"
    /\ probe.returned.ok
    /\ probe.returned.result_json = BlankMeta
    /\ state.active_engine = probe.returned.secondary
    /\ Cardinality(FactoryCalls) = 1

\* ------------------------------------------------- claims, the BrokerState
\* C32: in every reachable state a held standby implies role SecondaryProxy,
\* and escalation_skip_reason never answers "standby_primary_present".
C32_StandbyImpliesSecondary ==
    /\ state.standby_primary # None => state.active_role = SecondaryProxy
    /\ escalation_skip_reason(state, now) # "standby_primary_present"
C32_Witness ==
    /\ state.standby_primary # None
    /\ state.active_role = SecondaryProxy
    /\ last.kind = "Navigate" /\ last.outcome = "skipped"
    /\ escalation_skip_reason(state, now) = "already_on_secondary"

\* C33: in role Primary a failed engine operation changes only
\* consecutive_failures (one more, or the same at the top of its width),
\* however many failures have accumulated: the active engine, the role, the
\* standby and the backoff deadline stay as they were, and close is invoked on
\* no engine.
C33_PrimaryFailureFrame ==
    probe.kind = "health" =>
        \A i \in 1..Len(probe.calls) :
            LET c == probe.calls[i] IN
            (~c.ok /\ c.before.active_role = Primary) =>
                /\ c.after.active_engine = c.before.active_engine
                /\ c.after.active_role = Primary
                /\ c.after.standby_primary = c.before.standby_primary
                /\ c.after.escalation_backoff_until = c.before.escalation_backoff_until
                /\ c.after.consecutive_failures \in
                       {c.before.consecutive_failures + 1, U32_MAX}
                /\ c.after.consecutive_failures >= c.before.consecutive_failures
                /\ c.failed = None
C33_Witness ==
    /\ probe.kind = "health"
    /\ Len(probe.calls) = 5
    /\ \A i \in 1..5 : ~probe.calls[i].ok
    /\ probe.calls[1].before.consecutive_failures = 0
    /\ probe.calls[5].after.consecutive_failures = 5
    /\ probe.state.active_role = Primary
    /\ probe.state.escalation_backoff_until = None

\* ------------------------------------------------ claims, closed engines
\* The engine the loop started with has been the active one ever since: the
\* role is Primary and no rollback has set a backoff deadline.
NeverSwitched ==
    /\ state.active_role = Primary
    /\ state.escalation_backoff_until = None
    /\ pc \notin HandoffPcs

\* C34: no navigate, evaluate or screenshot is forwarded to an engine after
\* close was invoked on it and returned Ok.  Stated for the engine the loop
\* started with while it has always been the active one: once its close has
\* returned Ok (engine_closed), the request answered last is not one that was
\* forwarded to it.
C34_NoUseAfterClose ==
    (NeverSwitched /\ engine_closed) =>
        last.kind \notin {"Navigate", "Evaluate", "Screenshot"}

\* --------------------------------------------------- claims, the callers
\* The calls that have returned: requests are taken and answered in the order
\* they were sent, and those dropped with the receiver were the last ones.
Returned == probe.calls - Len(queue) - owed

\* C35: every BrokerHandle call eventually returns, with the broker's reply or
\* with an error: whenever calls are blocked in round_trip, a state follows in
\* which every call made so far has returned.
C35_EveryCallReturns ==
    (probe.kind = "callers" /\ Returned < probe.calls) ~> (Returned = probe.calls)
C35_Witness ==
    /\ probe.kind = "callers"
    /\ probe.rx_dropped
    /\ last.kind = "Shutdown"
    /\ probe.calls = 3 /\ probe.failed = 2
    /\ Returned = 3

\* ----------------------------------------- navigate metadata on its own
\* signals_from_navigate_meta and stamp_migrated applied to metadata strings
\* of every shape: the inputs of the unit tests, widened.

\* A key that the metadata object does not hold.
Absent == [t |-> "absent", b |-> FALSE, n |-> 0, s |-> <<>>]

\* Text that serde_json::from_str rejects although an object's keys can be
\* read in it (the closing brace is missing).
BrokenText(o) == [form |-> "garbage", compact |-> FALSE, obj |-> o]

\* Valid JSON whose top level is an array that holds one object.
ArrayText(o) == [form |-> "scalar", compact |-> TRUE, obj |-> o]

\* The Signals fields of width u32.
U32Fields ==
    {"js_errors", "unhandled_promise_rejections", "console_error_count",
     "failed_resource_count", "cors_violations", "pending_requests_at_sample",
     "css_parse_failures"}

\* Values a probe reports: integers that fit in u32, the widest u32, integers
\* that only fit in u64, and values that are not unsigned integers.
ProbeValues ==
    {Absent, JOther, JStr(<<"4">>)}
        \cup {JUInt(n) : n \in {0, 4, U32_MAX, U32_MAX + 1, U32_MAX + 5, U64_MAX}}

\* The metadata object written by a probe that reports r: the keys that r
\* leaves out are not in the object.
ObjectOf(r) ==
    LET at(k) == IF k = "ok" THEN r.ok
                 ELSE IF k = "title" THEN r.title
                 ELSE IF k = "migrated" THEN r.migrated
                 ELSE IF k = "engine" THEN r.engine
                 ELSE IF k = "first_paint_ms" THEN r.first_paint_ms
                 ELSE r.value
    IN  [k \in {x \in {"ok", "title", "migrated", "engine", "first_paint_ms", r.field} :
                    at(x) # Absent} |-> at(k)]

MetaObjects ==
    {ObjectOf(r) :
       r \in [ok : {Absent, JBool(TRUE), JBool(FALSE)},
              title : {Absent, JStr(<<"E", "x">>), JStr(<<" ">>)},
              migrated : {Absent, JBool(FALSE), JStr(<<"n", "o">>)},
              engine : {Absent, JStr(<<"s">>)},
              first_paint_ms : {Absent, JUInt(42), JUInt(U64_MAX)},
              field : U32Fields,
              value : ProbeValues]}

MetaInputs ==
    {GarbageText, ScalarText}
        \cup {ObjectText(o, c) : o \in MetaObjects, c \in BOOLEAN}
        \cup {BrokenText(o) : o \in MetaObjects}
        \cup {ArrayText(o) : o \in MetaObjects}

\* Clock readings handed to signals_from_navigate_meta.
SampleTimes == {0, 7}

NotApplied == [done |-> FALSE]

InitMeta ==
    /\ LoopStart
    /\ probe \in {[kind |-> "meta", meta_json |-> m, applied |-> NotApplied] :
                     m \in MetaInputs}

\* The metadata is parsed and stamped; the stamped text is stamped and parsed
\* again at the same clock reading.
ApplyMeta ==
    /\ probe.kind = "meta"
    /\ ~probe.applied.done
    /\ \E sampled \in SampleTimes :
         LET stamped == stamp_migrated(probe.meta_json, TRUE)
         IN  probe' = [probe EXCEPT !.applied =
                 [done |-> TRUE,
                  sampled |-> sampled,
                  signals |-> signals_from_navigate_meta(probe.meta_json, sampled),
                  stamped |-> stamped,
                  stamped_twice |-> stamp_migrated(stamped, TRUE),
                  signals_of_stamped |-> signals_from_navigate_meta(stamped, sampled)]]
    /\ UNCHANGED loop_vars

NextMeta == ApplyMeta

SpecMeta == InitMeta /\ [][NextMeta]_vars

\* ------------------------------------------------------------ claims C36..
Applied == probe.kind = "meta" /\ probe.applied.done

\* C36: metadata that is not valid JSON, or is valid JSON but not an object,
\* parses to the default value of every field other than sampled_at_ms
\* (first_paint_ms absent, every count 0), whatever the string holds.
C36_NonObjectGivesDefaults ==
    (Applied /\ probe.meta_json.form # "object") =>
        /\ probe.applied.signals.first_paint_ms = None
        /\ \A f \in DOMAIN DefaultSignals \ {"sampled_at_ms"} :
             probe.applied.signals[f] = DefaultSignals[f]
        /\ probe.applied.signals.sampled_at_ms = probe.applied.sampled

C36_Witness ==
    /\ Applied
    /\ probe.meta_json.form = "garbage"
    /\ "title" \in DOMAIN probe.meta_json.obj
    /\ OkOf(probe.meta_json.obj)
    /\ parse_u32(probe.meta_json.obj, "js_errors") = 4
    /\ probe.applied.signals.js_errors = 0
    /\ probe.applied.signals.paint_element_count = 0

\* The unsigned integer that the metadata object reports under key f, if any.
Reported(f) ==
    IF probe.meta_json.form = "object" /\ f \in DOMAIN probe.meta_json.obj
          /\ probe.meta_json.obj[f].t = "uint"
    THEN probe.meta_json.obj[f].n ELSE None

C38_StampSetsOnlyMigrated ==
    Applied =>
        /\ probe.meta_json.form = "object" =>
             /\ probe.applied.stamped.form = "object"
             /\ DOMAIN probe.applied.stamped.obj =
                    DOMAIN probe.meta_json.obj \cup {"migrated"}
             /\ probe.applied.stamped.obj["migrated"] = JBool(TRUE)
             /\ \A k \in DOMAIN probe.meta_json.obj \ {"migrated"} :
                    probe.applied.stamped.obj[k] = probe.meta_json.obj[k]
        /\ probe.meta_json.form # "object" =>
             probe.applied.stamped = probe.meta_json
        /\ probe.applied.stamped_twice = probe.applied.stamped

C38_Witness ==
    /\ Applied
    /\ probe.meta_json.form = "object"
    /\ ~probe.meta_json.compact
    /\ "migrated" \in DOMAIN probe.meta_json.obj
    /\ probe.meta_json.obj["migrated"] = JBool(FALSE)
    /\ "engine" \in DOMAIN probe.meta_json.obj
    /\ probe.applied.stamped # probe.meta_json
    /\ probe.applied.stamped.obj["migrated"] = JBool(TRUE)
    /\ probe.applied.stamped_twice = probe.applied.stamped

\* C39: the signals parsed from stamp_migrated(m, true) are the signals parsed
\* from m at the same clock reading, for every metadata string m, and the
\* scorer decides the same on both.
C39_StampKeepsSignals ==
    Applied =>
        /\ probe.applied.signals_of_stamped = probe.applied.signals
        /\ \A th \in Thresholds :
               score(probe.applied.signals_of_stamped, th) =
                   score(probe.applied.signals, th)

C39_Witness ==
    /\ Applied
    /\ probe.meta_json.form = "object"
    /\ "migrated" \notin DOMAIN probe.meta_json.obj
    /\ "migrated" \in DOMAIN probe.applied.stamped.obj
    /\ probe.applied.signals.first_paint_ms = 600
    /\ probe.applied.signals.js_errors = 4
    /\ probe.applied.signals_of_stamped = probe.applied.signals

\* ------------------------------------------ ServoEngine::import_state alone
\* import_state on an envelope of cookie_count cookies and ls_count
\* local-storage entries; import_cookie and import_local_storage_entry succeed
\* or fail entry by entry, as the WebDriver session answers.
InitImport ==
    /\ LoopStart
    /\ probe \in {[kind |-> "import", cookie_count |-> c, ls_count |-> l,
                   attempts |-> <<>>, cookie_failures |-> 0, ls_failures |-> 0,
                   returned |-> "none"] :
                     c \in 0..MaxImported, l \in 0..MaxImported}

\* Faulty variant: one failed entry makes the import an error.
ImportResult_any_failure(cookie_count, ls_count, cookie_failures, ls_failures) ==
    IF cookie_failures + ls_failures > 0 THEN "err" ELSE "ok"

\* What import_state returns after both loops.
ImportResult(cookie_count, ls_count, cookie_failures, ls_failures) ==
    LET total_attempted == cookie_count + ls_count
        total_failed == cookie_failures + ls_failures
    IN  IF total_attempted > 0 /\ total_failed = total_attempted THEN "err" ELSE "ok"

\* One turn of the loop over state.cookies.
ImportCookie ==
    /\ probe.kind = "import"
    /\ probe.returned = "none"
    /\ Len(probe.attempts) < probe.cookie_count
    /\ \E ok \in BOOLEAN :
         probe' = [probe EXCEPT
             !.attempts = Append(@, [entry |-> "cookie", index |-> Len(@) + 1,
                                     ok |-> ok]),
             !.cookie_failures = IF ok THEN @ ELSE saturating_add(@, 1)]
    /\ UNCHANGED loop_vars

\* One turn of the loop over state.local_storage, entered after the cookies.
ImportLocalStorageEntry ==
    /\ probe.kind = "import"
    /\ probe.returned = "none"
    /\ Len(probe.attempts) >= probe.cookie_count
    /\ Len(probe.attempts) < probe.cookie_count + probe.ls_count
    /\ \E ok \in BOOLEAN :
         probe' = [probe EXCEPT
             !.attempts = Append(@, [entry |-> "local_storage",
                                     index |-> Len(@) + 1 - probe.cookie_count,
                                     ok |-> ok]),
             !.ls_failures = IF ok THEN @ ELSE saturating_add(@, 1)]
    /\ UNCHANGED loop_vars

ImportStateReturns ==
    /\ probe.kind = "import"
    /\ probe.returned = "none"
    /\ Len(probe.attempts) = probe.cookie_count + probe.ls_count
    /\ probe' = [probe EXCEPT !.returned =
           ImportResult(probe.cookie_count, probe.ls_count,
                        probe.cookie_failures, probe.ls_failures)]
    /\ UNCHANGED loop_vars

NextImport == ImportCookie \/ ImportLocalStorageEntry \/ ImportStateReturns

SpecImport == InitImport /\ [][NextImport]_vars

\* The entries of the envelope, in the order import_state walks them.
EnvelopeEntries ==
    [i \in 1..(probe.cookie_count + probe.ls_count) |->
        IF i <= probe.cookie_count
        THEN [entry |-> "cookie", index |-> i]
        ELSE [entry |-> "local_storage", index |-> i - probe.cookie_count]]

Succeeded == {i \in 1..Len(probe.attempts) : probe.attempts[i].ok}

\* C40: import_state attempts every cookie and every local-storage entry of
\* the envelope, also after entries failed; it returns Ok when an attempted
\* entry succeeded or the envelope is empty, and an error only when at least
\* one entry was attempted and every attempted entry failed.
C40_ImportIsBestEffort ==
    (probe.kind = "import" /\ probe.returned # "none") =>
        /\ Len(probe.attempts) = Len(EnvelopeEntries)
        /\ \A i \in 1..Len(probe.attempts) :
               /\ probe.attempts[i].entry = EnvelopeEntries[i].entry
               /\ probe.attempts[i].index = EnvelopeEntries[i].index
        /\ (Succeeded # {} \/ Len(EnvelopeEntries) = 0) => probe.returned = "ok"
        /\ probe.returned = "err" =>
               (Len(probe.attempts) > 0 /\ Succeeded = {})

C40_Witness ==
    /\ probe.kind = "import"
    /\ probe.returned = "ok"
    /\ probe.cookie_count = 2
    /\ probe.ls_count = 1
    /\ ~probe.attempts[1].ok
    /\ ~probe.attempts[2].ok
    /\ probe.attempts[3].entry = "local_storage"
    /\ probe.attempts[3].ok

====
